---- MODULE Spec2Model ----
(***************************************************************************)
(* Model of index.js: the WeChat-bill CSV importer.                        *)
(*                                                                         *)
(* Text is a sequence of tokens.  A token is either one of the characters  *)
(* the code treats specially (newline, comma, double quote, blank, the     *)
(* currency sign, a digit, '.', '-') or an atomic run of other characters  *)
(* (a word, written in pinyin: "canyinmeishi" stands for 餐饮美食).       *)
(* Splitting, trimming, quote stripping,                                   *)
(* amount normalisation and number parsing all work on these tokens the    *)
(* way the JavaScript works on characters.                                 *)
(*                                                                         *)
(* Line indices and the loop variable i are 0-based as in the source.      *)
(***************************************************************************)
EXTENDS Integers, Sequences, FiniteSets, TLC

\* ------------------------------------------------------------------------
\* Bounds of the model
\* ------------------------------------------------------------------------
\* Number of '\n'-separated lines of an input file.
MaxLines == 4
\* Number of tokens of a single raw field in the field-parsing specification.
MaxFieldLen == 4

\* ------------------------------------------------------------------------
\* Tokens
\* ------------------------------------------------------------------------
NL == "\n"
COMMA == ","
QUOTE == "\""
SP == " "
YEN == "yen"                                  \* the currency sign

Whitespace == {SP, NL}

DigitValue ==
  [d \in {"0", "1", "2", "3", "4", "5", "6", "7", "8", "9"} |->
     CASE d = "0" -> 0 [] d = "1" -> 1 [] d = "2" -> 2 [] d = "3" -> 3
       [] d = "4" -> 4 [] d = "5" -> 5 [] d = "6" -> 6 [] d = "7" -> 7
       [] d = "8" -> 8 [] d = "9" -> 9]

Digits == DOMAIN DigitValue

\* ------------------------------------------------------------------------
\* String helpers (JavaScript built-ins used by the code)
\* ------------------------------------------------------------------------
RECURSIVE SplitAcc(_, _, _, _)
SplitAcc(s, sep, cur, acc) ==
  IF s = <<>> THEN Append(acc, cur)
  ELSE IF Head(s) = sep THEN SplitAcc(Tail(s), sep, <<>>, Append(acc, cur))
  ELSE SplitAcc(Tail(s), sep, Append(cur, Head(s)), acc)

\* String.prototype.split(sep) for a one-character separator.
Split(s, sep) == SplitAcc(s, sep, <<>>, <<>>)

RECURSIVE TrimStart(_)
TrimStart(s) ==
  IF s # <<>> /\ Head(s) \in Whitespace THEN TrimStart(Tail(s)) ELSE s

RECURSIVE TrimEnd(_)
TrimEnd(s) ==
  IF s # <<>> /\ s[Len(s)] \in Whitespace
  THEN TrimEnd(SubSeq(s, 1, Len(s) - 1)) ELSE s

\* String.prototype.trim
Trim(s) == TrimEnd(TrimStart(s))

\* String.prototype.includes
Includes(s, pat) ==
  \E k \in 0..(Len(s) - Len(pat)) : \A j \in 1..Len(pat) : s[k + j] = pat[j]

\* Array.prototype.findIndex with the predicate "line includes pat";
\* 0-based, -1 when no line matches.
FindIndexIncluding(ls, pat) ==
  LET hits == {k \in 1..Len(ls) : Includes(ls[k], pat)}
  IN IF hits = {} THEN -1
     ELSE (CHOOSE k \in hits : \A m \in hits : k <= m) - 1

\* Remove every token of the set drop: replace(/[...]/g, '').
RECURSIVE RemoveAll(_, _)
RemoveAll(s, drop) ==
  IF s = <<>> THEN <<>>
  ELSE IF Head(s) \in drop THEN RemoveAll(Tail(s), drop)
  ELSE <<Head(s)>> \o RemoveAll(Tail(s), drop)

\* ------------------------------------------------------------------------
\* Engine built-ins the import loop relies on
\* ------------------------------------------------------------------------
NaN == [nan |-> TRUE, value |-> 0]
Number(v) == [nan |-> FALSE, value |-> v]

RECURSIVE DigitPrefix(_)
\* Longest prefix of s made of decimal digits.
DigitPrefix(s) ==
  IF s # <<>> /\ Head(s) \in Digits
  THEN <<Head(s)>> \o DigitPrefix(Tail(s)) ELSE <<>>

RECURSIVE DigitsToInt(_, _)
DigitsToInt(ds, acc) ==
  IF ds = <<>> THEN acc
  ELSE DigitsToInt(Tail(ds), 10 * acc + DigitValue[Head(ds)])

\* parseFloat: skips leading white space, then reads the longest prefix of the
\* form [+-] digits [. digits] | [+-] . digits and ignores the rest; NaN
\* when that prefix holds no digit.  The value is kept in hundredths (the
\* amounts of a bill have two decimals); further decimals are cut.
ParseFloat(str) ==
  LET s0 == TrimStart(str)
      neg == s0 # <<>> /\ Head(s0) = "-"
      s1 == IF s0 # <<>> /\ Head(s0) \in {"-", "+"} THEN Tail(s0) ELSE s0
      ip == DigitPrefix(s1)
      r1 == SubSeq(s1, Len(ip) + 1, Len(s1))
      fp == IF r1 # <<>> /\ Head(r1) = "." THEN DigitPrefix(Tail(r1)) ELSE <<>>
      f2 == SubSeq(fp \o <<"0", "0">>, 1, 2)
      mag == 100 * DigitsToInt(ip, 0) + DigitsToInt(f2, 0)
  IN IF ip = <<>> /\ fp = <<>> THEN NaN
     ELSE Number(IF neg THEN 0 - mag ELSE mag)

\* Texts the engine's Date constructor accepts for certain: the bill's
\* "YYYY-MM-DD HH:mm:ss" and the plain date.
DateTexts == {<<"2024-01-01">>, <<"2024-01-01", SP, "10:00:00">>}

\* Tokens that can make a text look like a date to the engine's fallback
\* date parser, whose grammar is implementation-defined.
DateLike == Digits \cup {"2024-01-01", "10:00:00", "-", ".", "/"}

\* new Date(str) followed by isNaN: the set of possible answers to "is the
\* date valid".  A known text is valid, a text without any date-like token
\* is invalid, anything else is left to the engine.
DateValidOutcomes(str) ==
  IF str \in DateTexts THEN {TRUE}
  ELSE IF \A k \in 1..Len(str) : str[k] \notin DateLike THEN {FALSE}
  ELSE {TRUE, FALSE}

\* ------------------------------------------------------------------------
\* Program constants
\* ------------------------------------------------------------------------
\* The literal that marks the header line.
\* '交易时间,交易类型'
HeaderMarker == <<"jiaoyishijian", COMMA, "jiaoyileixing">>

CategoryFallback == <<"qita">>                \* '其他'
PaymentFallback == <<"weizhi">>               \* '未知'
CounterpartyFallback == <<"weizhi">>          \* '未知'
NameFallback == <<"(wushangpinming)">>        \* '(无商品名)'
Income == <<"shouru">>                        \* '收入'
Expense == <<"zhichu">>                       \* '支出'

\* ------------------------------------------------------------------------
\* Field and row parsing
\* ------------------------------------------------------------------------
\* ReplaceQuotes as /^"(.*)"$/ would do it: the quotes go only as a pair.
ReplaceQuotesPaired(s) ==
  IF Len(s) >= 2 /\ Head(s) = QUOTE /\ s[Len(s)] = QUOTE
  THEN SubSeq(s, 2, Len(s) - 1) ELSE s

\* replace(/^"|"$/g, ''): a quote at the start is removed, and a quote at
\* the end is removed; the two alternatives match independently.
ReplaceQuotes(s) ==
  LET a == IF s # <<>> /\ Head(s) = QUOTE THEN Tail(s) ELSE s
  IN IF a # <<>> /\ a[Len(a)] = QUOTE THEN SubSeq(a, 1, Len(a) - 1) ELSE a

\* The map callback of the inference pass.
ExtractParseField(col) == ReplaceQuotes(Trim(col))

\* The map callback of the import pass.
ImportParseField(col) == ReplaceQuotes(Trim(col))

\* columns of the inference pass, from a trimmed line.
ExtractColumns(line) ==
  LET raw == Split(line, COMMA)
  IN [k \in 1..Len(raw) |-> ExtractParseField(raw[k])]

\* columns of the import pass, from a trimmed line.
ImportColumns(line) ==
  LET raw == Split(line, COMMA)
  IN [k \in 1..Len(raw) |-> ImportParseField(raw[k])]

\* Array destructuring: position k (0-based) of columns; a missing position is
\* undefined, which like the empty string is falsy.
Truthy(columns, k) == k + 1 <= Len(columns) /\ columns[k + 1] # <<>>

\* columns[k] || fallback
OrElse(columns, k, fallback) ==
  IF Truthy(columns, k) THEN columns[k + 1] ELSE fallback

\* Add to a Set kept in insertion order.
SetAdd(set, v) ==
  IF \E k \in 1..Len(set) : set[k] = v THEN set ELSE Append(set, v)

RECURSIVE ExtractLoop(_, _, _)
ExtractLoop(lines, i, acc) ==
  IF i >= Len(lines) THEN acc
  ELSE
    LET line == Trim(lines[i + 1])
        columns == ExtractColumns(line)
        cats == IF Truthy(columns, 1)
                THEN SetAdd(acc.categories, columns[2]) ELSE acc.categories
        pays == IF Truthy(columns, 6)
                THEN SetAdd(acc.paymentMethods, columns[7])
                ELSE acc.paymentMethods
    IN IF line = <<>> THEN ExtractLoop(lines, i + 1, acc)
       ELSE ExtractLoop(lines, i + 1,
                        [categories |-> cats, paymentMethods |-> pays])

NoValues == [categories |-> <<>>, paymentMethods |-> <<>>]

extractUniqueValues(content) ==
  LET lines == Split(content, NL)
      dataStartIndex == FindIndexIncluding(lines, HeaderMarker)
  IN IF dataStartIndex = -1 THEN NoValues
     ELSE ExtractLoop(lines, dataStartIndex + 1, NoValues)

\* getDatabaseProperties without the fallback option of the category list.
getDatabasePropertiesNoFallback(uniqueValues) ==
  [Category |-> uniqueValues.categories,
   Type |-> <<Income, Expense>>,
   PaymentMethod |-> uniqueValues.paymentMethods \o <<PaymentFallback>>]

\* The option lists of the three select properties (the other properties
\* carry no data).
getDatabaseProperties(uniqueValues) ==
  [Category |-> uniqueValues.categories \o <<CategoryFallback>>,
   Type |-> <<Income, Expense>>,
   PaymentMethod |-> uniqueValues.paymentMethods \o <<PaymentFallback>>]

\* ------------------------------------------------------------------------
\* Input files
\* ------------------------------------------------------------------------
BillTime == <<"2024-01-01", SP, "10:00:00">>

\* 交易时间,交易类型,交易对方,商品,收/支,金额,支付方式
HeaderLine ==
  HeaderMarker \o <<COMMA, "jiaoyiduifang", COMMA, "shangpin", COMMA,
                    "shou/zhi", COMMA, "jine", COMMA, "zhifufangshi">>

\* 2024-01-01 10:00:00,餐饮美食,"测试商户","测试商品",支出,¥25.50,零钱
FullRow ==
  BillTime \o <<COMMA, "canyinmeishi", COMMA, QUOTE, "ceshishanghu", QUOTE,
                COMMA, QUOTE, "ceshishangpin", QUOTE, COMMA, "zhichu", COMMA,
                YEN, "2", "5", ".", "5", "0", COMMA, "lingqian">>

\* A row with only the time and the amount: every other field is empty.
BareRow == BillTime \o <<COMMA, COMMA, COMMA, COMMA, COMMA, SP, "8", COMMA>>

\* A row whose category and payment method are the fallback labels and whose
\* direction is the bill's neutral mark '/'.
NeutralRow ==
  BillTime \o <<COMMA, "qita", COMMA, COMMA, COMMA, "/", COMMA, "1", "2",
                COMMA, "weizhi">>

\* A row whose amount is 'abc'.
BadAmountRow ==
  BillTime \o <<COMMA, "jiaotongchuxing", COMMA, COMMA, COMMA, "shouru",
                COMMA, "abc", COMMA, "lingqian">>

\* A row whose time is 'abc'.
BadDateRow ==
  <<"abc", COMMA, "canyinmeishi", COMMA, COMMA, COMMA, "zhichu", COMMA, "5",
    COMMA, "xinyongka">>

\* A line with two fields only: the amount position is missing.
ShortRow == BillTime \o <<COMMA, "canyinmeishi">>

\* A row whose time field is empty.
NoDateRow ==
  <<COMMA, "canyinmeishi", COMMA, COMMA, COMMA, "zhichu", COMMA, "5", COMMA,
    "lingqian">>

BlankLine == <<SP>>

CandidateLines ==
  {HeaderLine, FullRow, BareRow, NeutralRow, BadAmountRow, BadDateRow,
   ShortRow, NoDateRow, BlankLine}

RECURSIVE JoinLines(_)
JoinLines(ls) ==
  IF ls = <<>> THEN <<>>
  ELSE IF Len(ls) = 1 THEN ls[1]
  ELSE ls[1] \o <<NL>> \o JoinLines(Tail(ls))

\* The contents of the files of at most MaxLines lines.
Files ==
  {JoinLines(ls) : ls \in UNION {[1..n -> CandidateLines] : n \in 0..MaxLines}}

\* Raw fields of the field-parsing specification.
FieldAlphabet == {SP, QUOTE, "a"}
RawFields == UNION {[1..n -> FieldAlphabet] : n \in 0..MaxFieldLen}

\* ------------------------------------------------------------------------
\* State
\* ------------------------------------------------------------------------
VARIABLES
  invocation,     \* "noArg", "noFile" or "ok": the command line and the file
  csvContent,     \* the text of the file
  pc,             \* position of main
  uniqueValues,   \* result of extractUniqueValues
  properties,     \* result of getDatabaseProperties
  lines,          \* main's lines
  i,              \* main's loop variable
  successCount,
  failureCount,
  calls,          \* every remote call issued so far, in order, with its outcome
  outstanding,    \* indices into calls of the calls not yet completed
  outcome,        \* how the run ended, "running" before
  reported,       \* TRUE once the import statistics are printed
  rawField,       \* field-parsing specification: the field as split
  extractField,   \* ... as parsed by the inference pass
  importField     \* ... as parsed by the import pass

vars ==
  <<invocation, csvContent, pc, uniqueValues, properties, lines, i,
    successCount, failureCount, calls, outstanding, outcome, reported,
    rawField, extractField, importField>>

runVars ==
  <<invocation, csvContent, pc, uniqueValues, properties, lines, i,
    successCount, failureCount, calls, outstanding, outcome, reported>>

fieldVars == <<rawField, extractField, importField>>

NoProperties == [Category |-> <<>>, Type |-> <<>>, PaymentMethod |-> <<>>]

NoPage ==
  [Name |-> <<>>, Category |-> <<>>, Counterparty |-> <<>>, Type |-> <<>>,
   Amount |-> NaN, PaymentMethod |-> <<>>]

\* A remote call: op is "retrieve", "update" or "create"; row is the index of
\* the line a create call is made for (-1 otherwise); status is "pending",
\* "ok" or "failed".
RemoteCall(op, row, props, page) ==
  [op |-> op, row |-> row, status |-> "pending", properties |-> props,
   page |-> page]

\* Issue a call: it is appended to the log and is outstanding.
Issue(call) ==
  /\ calls' = Append(calls, call)
  /\ outstanding' = outstanding \cup {Len(calls) + 1}

\* The outstanding call completes with status st and the next one is issued.
CompleteAndIssue(st, call) ==
  LET k == Len(calls)
  IN /\ calls' = Append([calls EXCEPT ![k].status = st], call)
     /\ outstanding' = (outstanding \ {k}) \cup {k + 1}

\* The outstanding call completes with status st.
Complete(st) ==
  LET k == Len(calls)
  IN /\ calls' = [calls EXCEPT ![k].status = st]
     /\ outstanding' = outstanding \ {k}

RunInit ==
  /\ invocation \in {"noArg", "noFile", "ok"}
  /\ csvContent \in (IF invocation = "ok" THEN Files ELSE {<<>>})
  /\ pc = "main"
  /\ uniqueValues = NoValues
  /\ properties = NoProperties
  /\ lines = <<>>
  /\ i = 0
  /\ successCount = 0
  /\ failureCount = 0
  /\ calls = <<>>
  /\ outstanding = {}
  /\ outcome = "running"
  /\ reported = FALSE

Init ==
  /\ RunInit
  /\ rawField = <<>>
  /\ extractField = <<>>
  /\ importField = <<>>

\* ------------------------------------------------------------------------
\* main, up to the import loop
\* ------------------------------------------------------------------------
\* No path on the command line, or no such file: process.exit(1) before
\* anything else is done.
UsageExit ==
  /\ pc = "main"
  /\ invocation # "ok"
  /\ pc' = "done"
  /\ outcome' = "usageExit"
  /\ UNCHANGED <<invocation, csvContent, uniqueValues, properties, lines, i,
                 successCount, failureCount, calls, outstanding, reported>>
  /\ UNCHANGED fieldVars

\* main reads the file, infers the option values, builds the schema
\* definition and enters updateDatabaseProperties, which issues the first
\* retrieve call.
ReadAndInfer ==
  /\ pc = "main"
  /\ invocation = "ok"
  /\ uniqueValues' = extractUniqueValues(csvContent)
  /\ properties' = getDatabaseProperties(uniqueValues')
  /\ Issue(RemoteCall("retrieve", -1, NoProperties, NoPage))
  /\ pc' = "retrieveCurrent"
  /\ UNCHANGED <<invocation, csvContent, lines, i, successCount,
                 failureCount, outcome, reported>>
  /\ UNCHANGED fieldVars

\* The first retrieve call returns; the update call is issued with the
\* schema definition.
RetrieveCurrentDone ==
  /\ pc = "retrieveCurrent"
  /\ CompleteAndIssue("ok", RemoteCall("update", -1, properties, NoPage))
  /\ pc' = "update"
  /\ UNCHANGED <<invocation, csvContent, uniqueValues, properties, lines, i,
                 successCount, failureCount, outcome, reported>>
  /\ UNCHANGED fieldVars

\* The update call returns; the second retrieve call is issued.
UpdateDone ==
  /\ pc = "update"
  /\ CompleteAndIssue("ok", RemoteCall("retrieve", -1, NoProperties, NoPage))
  /\ pc' = "retrieveUpdated"
  /\ UNCHANGED <<invocation, csvContent, uniqueValues, properties, lines, i,
                 successCount, failureCount, outcome, reported>>
  /\ UNCHANGED fieldVars

\* HeaderMissing without the test: line 0 is taken for the first data row.
HeaderNeverMissing(dataStartIndex) == FALSE

\* dataStartIndex === -1
HeaderMissing(dataStartIndex) == dataStartIndex = -1

\* The second retrieve call returns and updateDatabaseProperties with it;
\* main splits the file into lines and looks for the header line.  Without
\* one it throws, caught by main's own catch; with one the loop starts on the
\* line after it.
RetrieveUpdatedDone ==
  /\ pc = "retrieveUpdated"
  /\ Complete("ok")
  /\ LET ls == Split(csvContent, NL)
         dataStartIndex == FindIndexIncluding(ls, HeaderMarker)
     IN /\ lines' = ls
        /\ IF HeaderMissing(dataStartIndex)
           THEN /\ pc' = "done"
                /\ outcome' = "noDataError"
                /\ UNCHANGED i
           ELSE /\ pc' = "loop"
                /\ i' = dataStartIndex + 1
                /\ UNCHANGED outcome
  /\ UNCHANGED <<invocation, csvContent, uniqueValues, properties,
                 successCount, failureCount, reported>>
  /\ UNCHANGED fieldVars

\* SchemaCallFails with a catch that logs and does not rethrow: main goes on
\* to the import loop.
SchemaCallFailsIgnored ==
  /\ pc \in {"retrieveCurrent", "update", "retrieveUpdated"}
  /\ Complete("failed")
  /\ LET ls == Split(csvContent, NL)
         dataStartIndex == FindIndexIncluding(ls, HeaderMarker)
     IN /\ lines' = ls
        /\ i' = dataStartIndex + 1
  /\ pc' = "loop"
  /\ UNCHANGED <<invocation, csvContent, uniqueValues, properties,
                 successCount, failureCount, outcome, reported>>
  /\ UNCHANGED fieldVars

\* Any of the three calls of updateDatabaseProperties fails: its catch logs
\* and rethrows, main's catch logs, and main returns.
SchemaCallFails ==
  /\ pc \in {"retrieveCurrent", "update", "retrieveUpdated"}
  /\ Complete("failed")
  /\ pc' = "done"
  /\ outcome' = "syncError"
  /\ UNCHANGED <<invocation, csvContent, uniqueValues, properties, lines, i,
                 successCount, failureCount, reported>>
  /\ UNCHANGED fieldVars

\* ------------------------------------------------------------------------
\* The import loop
\* ------------------------------------------------------------------------
InLoop == pc = "loop" /\ i < Len(lines)

\* const line = lines[i].trim()
CurrentLine == Trim(lines[i + 1])

CurrentColumns == ImportColumns(CurrentLine)

\* !dateStr || !amountStr
Incomplete(columns) == ~Truthy(columns, 0) \/ ~Truthy(columns, 5)

\* amountStr.replace(/[¥\s,]/g, '')
NormalizeAmount(amountStr) == RemoveAll(amountStr, {YEN, COMMA} \cup Whitespace)

\* IsNaN without the test.
IsNaNNever(amount) == FALSE

\* isNaN(amount)
IsNaN(amount) == amount.nan

\* The properties of the page to create.
PageOf(columns, amount) ==
  [Name |-> OrElse(columns, 3, NameFallback),
   Category |-> OrElse(columns, 1, CategoryFallback),
   Counterparty |-> OrElse(columns, 2, CounterpartyFallback),
   Type |-> OrElse(columns, 4, Expense),
   Amount |-> amount,
   PaymentMethod |-> OrElse(columns, 6, PaymentFallback)]

NextRow ==
  /\ i' = i + 1
  /\ UNCHANGED <<invocation, csvContent, uniqueValues, properties, lines,
                 outcome, reported>>
  /\ UNCHANGED fieldVars

\* if (!line) continue
SkipBlankLine ==
  /\ InLoop
  /\ CurrentLine = <<>>
  /\ NextRow
  /\ UNCHANGED <<pc, successCount, failureCount, calls, outstanding>>

\* SkipIncompleteRow counting the row as failed.
SkipIncompleteRowCounted ==
  /\ InLoop
  /\ CurrentLine # <<>>
  /\ Incomplete(CurrentColumns)
  /\ failureCount' = failureCount + 1
  /\ NextRow
  /\ UNCHANGED <<pc, successCount, calls, outstanding>>

\* if (!dateStr || !amountStr) continue
SkipIncompleteRow ==
  /\ InLoop
  /\ CurrentLine # <<>>
  /\ Incomplete(CurrentColumns)
  /\ NextRow
  /\ UNCHANGED <<pc, successCount, failureCount, calls, outstanding>>

\* RejectDate without failureCount++.
RejectDateUncounted ==
  /\ InLoop
  /\ CurrentLine # <<>>
  /\ ~Incomplete(CurrentColumns)
  /\ FALSE \in DateValidOutcomes(CurrentColumns[1])
  /\ NextRow
  /\ UNCHANGED <<pc, successCount, failureCount, calls, outstanding>>

\* The date is invalid: the row is counted as failed.
RejectDate ==
  /\ InLoop
  /\ CurrentLine # <<>>
  /\ ~Incomplete(CurrentColumns)
  /\ FALSE \in DateValidOutcomes(CurrentColumns[1])
  /\ failureCount' = failureCount + 1
  /\ NextRow
  /\ UNCHANGED <<pc, successCount, calls, outstanding>>

\* The date is valid and the amount is not a number: the row is counted as
\* failed.
RejectAmount ==
  /\ InLoop
  /\ CurrentLine # <<>>
  /\ ~Incomplete(CurrentColumns)
  /\ TRUE \in DateValidOutcomes(CurrentColumns[1])
  /\ IsNaN(ParseFloat(NormalizeAmount(CurrentColumns[6])))
  /\ failureCount' = failureCount + 1
  /\ NextRow
  /\ UNCHANGED <<pc, successCount, calls, outstanding>>

\* SubmitRow without await: the call is issued and the loop goes on.
SubmitRowNoAwait ==
  /\ InLoop
  /\ CurrentLine # <<>>
  /\ ~Incomplete(CurrentColumns)
  /\ TRUE \in DateValidOutcomes(CurrentColumns[1])
  /\ LET amount == ParseFloat(NormalizeAmount(CurrentColumns[6]))
     IN /\ ~IsNaN(amount)
        /\ Issue(RemoteCall("create", i, NoProperties,
                            PageOf(CurrentColumns, amount)))
  /\ successCount' = successCount + 1
  /\ NextRow
  /\ UNCHANGED <<pc, failureCount>>

\* The row is valid: the create call is issued and main waits for it.
SubmitRow ==
  /\ InLoop
  /\ CurrentLine # <<>>
  /\ ~Incomplete(CurrentColumns)
  /\ TRUE \in DateValidOutcomes(CurrentColumns[1])
  /\ LET amount == ParseFloat(NormalizeAmount(CurrentColumns[6]))
     IN /\ ~IsNaN(amount)
        /\ Issue(RemoteCall("create", i, NoProperties,
                            PageOf(CurrentColumns, amount)))
  /\ pc' = "create"
  /\ UNCHANGED <<invocation, csvContent, uniqueValues, properties, lines, i,
                 successCount, failureCount, outcome, reported>>
  /\ UNCHANGED fieldVars

\* The create call returns: the row is counted as imported.
CreateDone ==
  /\ pc = "create"
  /\ Complete("ok")
  /\ successCount' = successCount + 1
  /\ pc' = "loop"
  /\ NextRow
  /\ UNCHANGED failureCount

\* The create call fails: the loop's catch counts the row as failed.
CreateFails ==
  /\ pc = "create"
  /\ Complete("failed")
  /\ failureCount' = failureCount + 1
  /\ pc' = "loop"
  /\ NextRow
  /\ UNCHANGED successCount

\* The loop is over: the statistics are printed.
ReportStatistics ==
  /\ pc = "loop"
  /\ i >= Len(lines)
  /\ reported' = TRUE
  /\ pc' = "done"
  /\ outcome' = "completed"
  /\ UNCHANGED <<invocation, csvContent, uniqueValues, properties, lines, i,
                 successCount, failureCount, calls, outstanding>>
  /\ UNCHANGED fieldVars

Next ==
  \/ UsageExit
  \/ ReadAndInfer
  \/ RetrieveCurrentDone
  \/ UpdateDone
  \/ RetrieveUpdatedDone
  \/ SchemaCallFails
  \/ SkipBlankLine
  \/ SkipIncompleteRow
  \/ RejectDate
  \/ RejectAmount
  \/ SubmitRow
  \/ CreateDone
  \/ CreateFails
  \/ ReportStatistics

Spec == Init /\ [][Next]_vars

\* ------------------------------------------------------------------------
\* Field parsing on its own: every raw field of the alphabet is parsed the
\* way each of the two passes parses it.
\* ------------------------------------------------------------------------
FieldInit ==
  /\ invocation = "ok"
  /\ csvContent = <<>>
  /\ pc = "field"
  /\ uniqueValues = NoValues
  /\ properties = NoProperties
  /\ lines = <<>>
  /\ i = 0
  /\ successCount = 0
  /\ failureCount = 0
  /\ calls = <<>>
  /\ outstanding = {}
  /\ outcome = "running"
  /\ reported = FALSE
  /\ rawField \in RawFields
  /\ extractField = <<>>
  /\ importField = <<>>

ParseInExtract ==
  /\ pc = "field"
  /\ extractField' = ExtractParseField(rawField)
  /\ pc' = "fieldExtracted"
  /\ UNCHANGED <<invocation, csvContent, uniqueValues, properties, lines, i,
                 successCount, failureCount, calls, outstanding, outcome,
                 reported, rawField, importField>>

ParseInImport ==
  /\ pc = "fieldExtracted"
  /\ importField' = ImportParseField(rawField)
  /\ pc' = "fieldParsed"
  /\ UNCHANGED <<invocation, csvContent, uniqueValues, properties, lines, i,
                 successCount, failureCount, calls, outstanding, outcome,
                 reported, rawField, extractField>>

FieldNext == ParseInExtract \/ ParseInImport

FieldSpec == FieldInit /\ [][FieldNext]_vars

\* ------------------------------------------------------------------------
\* Properties
\* ------------------------------------------------------------------------
Names(options) == {options[k] : k \in 1..Len(options)}

NoDuplicates(options) ==
  \A j, k \in 1..Len(options) : j # k => options[j] # options[k]

CreateCalls == {k \in 1..Len(calls) : calls[k].op = "create"}

SchemaCalls == {k \in 1..Len(calls) : calls[k].op \in {"retrieve", "update"}}

\* The file has a line with the header marker (the marker holds no newline).
HasHeader == Includes(csvContent, HeaderMarker)

\* The lines of the file.
FileLines == Split(csvContent, NL)

\* The 0-based indices of the lines of fl after its first header line.
DataRowsOf(fl) ==
  LET headers == {h \in 0..(Len(fl) - 1) : Includes(fl[h + 1], HeaderMarker)}
  IN {r \in 0..(Len(fl) - 1) : \E h \in headers : h < r}

\* The line is not blank.
NonBlank(line) == Trim(line) # <<>>

\* The line has timestamp text and amount text.
HasDateAndAmount(line) ==
  LET columns == ImportColumns(Trim(line))
  IN Len(columns) >= 6 /\ columns[1] # <<>> /\ columns[6] # <<>>

\* C1: every create-record call comes after an update-schema call that
\* succeeded, and its category and payment-method values are option names of
\* the schema definition that update call sent.
C1_CreateAfterSchemaAcceptsValues ==
  \A k \in CreateCalls :
    \E j \in 1..(k - 1) :
      /\ calls[j].op = "update"
      /\ calls[j].status = "ok"
      /\ calls[k].page.Category \in Names(calls[j].properties.Category)
      /\ calls[k].page.PaymentMethod
           \in Names(calls[j].properties.PaymentMethod)

\* A run that created one record with the row's own category and payment
\* method and one with the two fallback labels of a row that has neither.
C1_Witness ==
  /\ \E k \in CreateCalls :
       /\ calls[k].page.Category = <<"canyinmeishi">>
       /\ calls[k].page.PaymentMethod = <<"lingqian">>
  /\ \E k \in CreateCalls :
       /\ FileLines[calls[k].row + 1] = BareRow
       /\ calls[k].page.Category = CategoryFallback
       /\ calls[k].page.PaymentMethod = PaymentFallback

\* C2: when a call of schema synchronization has failed, it is the last
\* remote call of the run (nothing is retried, no record is created), the run
\* has ended with the synchronization error, the loop was never entered and
\* no statistics are reported.
C2_SchemaFailureAbortsRun ==
  \A k \in SchemaCalls :
    calls[k].status = "failed" =>
      /\ k = Len(calls)
      /\ CreateCalls = {}
      /\ pc = "done"
      /\ outcome = "syncError"
      /\ lines = <<>>
      /\ ~reported

\* The update call failed on a file that has a header and a valid row.
C2_Witness ==
  /\ Len(calls) = 2
  /\ calls[2].op = "update"
  /\ calls[2].status = "failed"
  /\ FileLines = <<HeaderLine, FullRow>>

\* C3: when the statistics are reported, every non-blank data row with
\* timestamp and amount text has been counted exactly once: at most one
\* create call per row, successCount is the number of rows whose create call
\* succeeded and failureCount the number of the other rows.
C3_EveryRowCountedOnce ==
  LET fl == FileLines
      Eligible == {r \in DataRowsOf(fl) :
                     NonBlank(fl[r + 1]) /\ HasDateAndAmount(fl[r + 1])}
      Imported == {r \in Eligible :
                     \E k \in CreateCalls :
                       calls[k].row = r /\ calls[k].status = "ok"}
  IN reported =>
       /\ \A j, k \in CreateCalls : j # k => calls[j].row # calls[k].row
       /\ \A k \in CreateCalls : calls[k].row \in Eligible
       /\ successCount = Cardinality(Imported)
       /\ failureCount = Cardinality(Eligible \ Imported)
       /\ successCount + failureCount = Cardinality(Eligible)

\* A finished run with a rejected row, a failed create call and a create
\* call that succeeded after them.
C3_Witness ==
  /\ reported
  /\ FileLines = <<HeaderLine, BadAmountRow, FullRow, NeutralRow>>
  /\ \E k \in CreateCalls : calls[k].row = 2 /\ calls[k].status = "failed"
  /\ \E k \in CreateCalls : calls[k].row = 3 /\ calls[k].status = "ok"
  /\ successCount = 1
  /\ failureCount = 2

\* C4: a step of the loop on a non-blank row whose timestamp or amount text
\* is absent (the field is empty or its position is missing) changes neither
\* counter and issues no call.
C4_IncompleteRowIsPureSkip ==
  [][(/\ InLoop
      /\ CurrentLine # <<>>
      /\ LET columns == CurrentColumns
         IN \/ Len(columns) < 6
            \/ columns[1] = <<>>
            \/ columns[6] = <<>>)
     => (/\ successCount' = successCount
         /\ failureCount' = failureCount
         /\ calls' = calls
         /\ outstanding' = outstanding)]_vars

\* A finished run over a row with a missing amount position, a row with an
\* empty time field and a valid row: only the valid row was counted.
C4_Witness ==
  /\ reported
  /\ FileLines = <<HeaderLine, ShortRow, NoDateRow, FullRow>>
  /\ successCount + failureCount = 1
  /\ Cardinality(CreateCalls) = 1

\* C5: the category and payment-method option lists of the schema definition
\* sent end with the fallback option and hold no name twice.
C5_OptionsEndWithFallbackNoDuplicates ==
  \A k \in 1..Len(calls) :
    calls[k].op = "update" =>
      LET cats == calls[k].properties.Category
          pays == calls[k].properties.PaymentMethod
      IN /\ cats # <<>> /\ cats[Len(cats)] = CategoryFallback
         /\ pays # <<>> /\ pays[Len(pays)] = PaymentFallback
         /\ NoDuplicates(cats)
         /\ NoDuplicates(pays)

\* C6: the direction value of every create-record call is one of the two
\* options of the direction select field.
C6_DirectionInEnumeration ==
  \A k \in CreateCalls : calls[k].page.Type \in {Income, Expense}

\* C7: a step of the loop on a row with timestamp and amount text whose
\* timestamp cannot be a date or whose normalized amount is not a number adds
\* one to failureCount, leaves successCount alone, issues no call and moves
\* to the next row.
C7_InvalidRowCountedFailed ==
  [][(/\ InLoop
      /\ CurrentLine # <<>>
      /\ LET columns == CurrentColumns
         IN /\ Len(columns) >= 6 /\ columns[1] # <<>> /\ columns[6] # <<>>
            /\ \/ DateValidOutcomes(columns[1]) = {FALSE}
               \/ ParseFloat(NormalizeAmount(columns[6])) = NaN)
     => (/\ failureCount' = failureCount + 1
         /\ successCount' = successCount
         /\ calls' = calls
         /\ outstanding' = outstanding
         /\ i' = i + 1
         /\ pc' = "loop")]_vars

\* A finished run over a row with amount 'abc', a row with time 'abc' and a
\* valid row after them.
C7_Witness ==
  /\ reported
  /\ FileLines = <<HeaderLine, BadAmountRow, BadDateRow, FullRow>>
  /\ failureCount = 2
  /\ successCount = 1
  /\ \A k \in CreateCalls : calls[k].row = 3

\* C8: at most one remote call is outstanding, every call but the last issued
\* has completed, and the create calls are issued in the order of their rows.
C8_OneCallAtATimeInRowOrder ==
  /\ Cardinality(outstanding) <= 1
  /\ \A j, k \in 1..Len(calls) :
       j < k =>
         /\ calls[j].status # "pending"
         /\ j \notin outstanding
         /\ (j \in CreateCalls /\ k \in CreateCalls
               => calls[j].row < calls[k].row)

\* The third create call of a run is outstanding, the first failed and the
\* second succeeded.
C8_Witness ==
  /\ Len(calls) = 6
  /\ outstanding = {6}
  /\ calls[4].op = "create" /\ calls[4].status = "failed"
  /\ calls[5].op = "create" /\ calls[5].status = "ok"
  /\ calls[6].op = "create" /\ calls[6].status = "pending"

\* C9: on a file without a line holding the header marker, inference yields
\* two empty collections, no line is processed as a data row (the loop is
\* never entered, nothing is counted), no create call is issued, and the run
\* ends with an error.
C9_NoHeaderNoData ==
  (invocation = "ok" /\ ~HasHeader) =>
    /\ uniqueValues = NoValues
    /\ CreateCalls = {}
    /\ pc \notin {"loop", "create"}
    /\ i = 0
    /\ successCount = 0
    /\ failureCount = 0
    /\ ~reported
    /\ pc = "done" => outcome \in {"noDataError", "syncError"}

\* A run over valid rows without a header has ended with the missing-data
\* error after the schema calls.
C9_Witness ==
  /\ FileLines = <<FullRow, BareRow>>
  /\ pc = "done"
  /\ outcome = "noDataError"
  /\ Len(calls) = 3

\* The trimmed text of the raw field.
Trimmed == Trim(rawField)

\* C10 as stated: the parsed field is the trimmed text without its first and
\* last token when both are quotes, and the trimmed text itself otherwise,
\* in both passes.  (The text that is one quote and nothing else, which is
\* its own first and last token, is left out of the statement.)
C10_QuotesStrippedOnlyAsPair ==
  LET t == Trimmed
      expected == IF Len(t) >= 2 /\ t[1] = QUOTE /\ t[Len(t)] = QUOTE
                  THEN SubSeq(t, 2, Len(t) - 1) ELSE t
  IN (pc = "fieldParsed" /\ t # <<QUOTE>>) =>
       extractField = expected /\ importField = expected

\* C10 amended: the trimmed text is the parsed field with a quote put back in
\* front when the trimmed text starts with a quote, and a quote put back
\* behind when the trimmed text, of two tokens or more, ends with a quote; a
\* quote at one end only is removed, a text that is a single quote becomes
\* empty.  Both passes give the same field.
C10_QuotesStrippedIndependently ==
  LET t == Trimmed
      lead == IF t # <<>> /\ t[1] = QUOTE THEN <<QUOTE>> ELSE <<>>
      trail == IF Len(t) >= 2 /\ t[Len(t)] = QUOTE THEN <<QUOTE>> ELSE <<>>
  IN pc = "fieldParsed" =>
       /\ t = lead \o extractField \o trail
       /\ importField = extractField

\* A field with blanks around it and a quote in front only has been parsed.
C10_Witness ==
  /\ pc = "fieldParsed"
  /\ rawField = <<SP, QUOTE, "a", SP>>
  /\ extractField = <<"a">>
  /\ importField = <<"a">>

====
